---- MODULE Spec2Model ----
(***************************************************************************)
(* A model of xmr::utility::profiler::profiler                             *)
(* (include/xmr/utility/profiler/profiler.hpp): the histogram _timings,    *)
(* the counter _total_counts and the mutex _lock, used by threads that     *)
(* call track, clear and the statistics queries.  Every statement of a     *)
(* method that touches shared state is one step of the calling thread.     *)
(*                                                                         *)
(* uint64_t is modelled as the integers modulo 2^Width.                    *)
(*                                                                         *)
(* The feature detection of the TSC clock                                  *)
(* (source/xmr/utility/profiler/clock/tsc.cpp) is modelled beside it: its  *)
(* statics, and the threads that call is_available, is_invariant and       *)
(* frequency.  Its registers and its int32_t have RegBits bits.            *)
(***************************************************************************)
EXTENDS Integers, FiniteSets, Bags, TLC

\* ------------------------------------------------------------------ bounds

\* Number of bits of the model's unsigned integer type (uint64_t in the code).
Width == 24

\* Calls of track each thread makes.
MaxCalls == 2

\* Calls of clear made over a whole run.
MaxClears == 1

\* ------------------------------------------------------------- the machine

Modulus == 2 ^ Width

\* std::numeric_limits<uint64_t>::max()
MAX_U64 == Modulus - 1

\* The threads sharing one engine.
Threads == {"t1", "t2"}

NoThread == "none"

\* A local variable that holds no value.
Nil == 0 - 1

\* Timestamps handed to track: around zero and just below the maximum, so
\* that both branches of the difference and large durations occur.
Stamps == {0, 1, MAX_U64 - 2}

VARIABLES
    _lock,          \* the thread that holds the mutex, or NoThread
    _timings,       \* std::map<uint64_t, uint64_t>: duration |-> calls
    _total_counts,  \* total number of calls
    pc,             \* per thread: the statement it executes next
    op,             \* per thread: the method it is in, or returned from last
    time_end,       \* per thread: argument of track
    time_start,     \* per thread: argument of track
    difference,     \* per thread: local of track
    reg,            \* per thread: the value read by _total_counts++
    percentile,     \* per thread: argument of the percentile queries
    time,           \* per thread: local of total_time
    accum,          \* per thread: local of percentile_events
    max,            \* per thread: local of percentile_events
    tmin,           \* per thread: local of percentile_time
    tdelta,         \* per thread: local of percentile_time
    itr,            \* per thread: position of the range-for over _timings
    ret,            \* per thread: value returned by its last completed call
    ncalls,         \* per thread: calls of track begun
    nclears,        \* calls of clear begun
    recorded,       \* durations returned by track since the last clear returned
    bumped,         \* per thread: the key whose count its map update changed
    avg_time,       \* per thread: value of the operand total_time() of average_time
    avg_events,     \* per thread: value of the operand total_events() of average_time
    avg,            \* per thread: the double returned by its last average_time
    time_out,       \* per thread: the object bound to percentile_time's time
    amount_out      \* per thread: the object bound to percentile_time's amount

\* source/xmr/utility/profiler/clock/tsc.cpp: the statics of the feature
\* detection, the locals of tsc_initialize, and the processor it asks.
VARIABLES
    tsc_checked,            \* static bool
    tsc_available,          \* static bool
    tsc_invariant,          \* static bool
    tsc_frequency_hz,       \* static uint64_t
    max_cpuid_function,     \* per thread: local int32_t of tsc_initialize
    max_cpuidex_function,   \* per thread: local int32_t of tsc_initialize
    cpu,                    \* the answers of the processor and the platform read so far
    seen                    \* per TSC function: the values it has returned

vars == <<_lock, _timings, _total_counts, pc, op, time_end, time_start,
          difference, reg, percentile, time, accum, max, tmin, tdelta, itr,
          ret, ncalls, nclears, recorded, bumped, avg_time, avg_events, avg,
          time_out, amount_out, tsc_checked, tsc_available, tsc_invariant,
          tsc_frequency_hz, max_cpuid_function, max_cpuidex_function, cpu,
          seen>>

\* The state of the feature detection.
tscvars == <<tsc_checked, tsc_available, tsc_invariant, tsc_frequency_hz,
             max_cpuid_function, max_cpuidex_function, cpu, seen>>

\* The locals of track and the locals of the queries.
locals == <<time_end, time_start, difference>>

qlocals == <<percentile, time, accum, max, tmin, tdelta, itr>>

\* The locals of the scans, the temporaries of average_time, and the objects
\* percentile_time's reference parameters are bound to.
slocals == <<time, accum, max, tmin, tdelta, itr>>

alocals == <<avg_time, avg_events>>

outs == <<time_out, amount_out>>

\* An empty std::map.
EmptyMap == [k \in {} |-> 0]

\* A double is the pair of the two integers whose quotient it is; NoDouble
\* stands for no value.
NoDouble == <<Nil, Nil>>

\* Faulty variant: the operands of the wrap branch exchanged.
DifferenceSwapped(e, s) ==
    IF e >= s THEN e - s ELSE ((MAX_U64 - s) + e) % Modulus

\* profiler.hpp:52-59, the time difference computed by track.
Difference(e, s) ==
    IF e >= s THEN e - s ELSE ((MAX_U64 - e) + s) % Modulus

\* Faulty variant: a new key is emplaced with the count 0.
InsertZeroed(m, d) ==
    IF d \in DOMAIN m
    THEN [m EXCEPT ![d] = (m[d] + 1) % Modulus]
    ELSE [k \in DOMAIN m \cup {d} |-> IF k = d THEN 0 ELSE m[k]]

\* Faulty variant: the count of a key already present is set back to 1.
InsertOverwrite(m, d) ==
    [k \in DOMAIN m \cup {d} |-> IF k = d THEN 1 ELSE m[k]]

\* profiler.hpp:63-68, find the key and increment it, or emplace it with 1.
Insert(m, d) ==
    IF d \in DOMAIN m
    THEN [m EXCEPT ![d] = (m[d] + 1) % Modulus]
    ELSE [k \in DOMAIN m \cup {d} |-> IF k = d THEN 1 ELSE m[k]]

\* Faulty variant: the counter is stored back unchanged.
IncrementedSame(v) == v

\* profiler.hpp:71, the value stored by _total_counts++.
Incremented(v) == (v + 1) % Modulus

\* Faulty variant: the buckets survive.
ClearedKept(m) == m

\* profiler.hpp:83, _timings.clear().
Cleared(m) == EmptyMap

\* Faulty variant: the mutex excludes nobody.
CanLockAlways(t) == TRUE

\* std::unique_lock / std::lock_guard on _lock: a thread passes when no
\* thread holds the mutex.
CanLock(t) == _lock = NoThread

\* --------------------------------------------------- TSC feature detection

\* What the detection asks: the CPUID leaves 0x0, 0x80000000, 0x80000001,
\* 0x80000007, 0x15 and 0x16, whether the build is one for _WIN32, and the
\* registry value ~Mhz; and what the build computes where the language
\* defines no value.  The machine and the build fix each answer; it is
\* Unread until a thread has asked for it.
Sources ==
    {"leaf0", "ext0", "ext1", "ext7", "leaf15", "leaf16", "platform",
     "registry", "build"}

Unread == <<>>

\* tsc.cpp:120-139
TscFunctions == {"is_available", "is_invariant", "frequency"}

\* tsc.cpp:23-26: the statics as the program starts; nothing asked, nothing
\* returned.
TscStart ==
    /\ tsc_checked = FALSE
    /\ tsc_available = FALSE
    /\ tsc_invariant = FALSE
    /\ tsc_frequency_hz = 0
    /\ max_cpuid_function = [t \in Threads |-> Nil]
    /\ max_cpuidex_function = [t \in Threads |-> Nil]
    /\ cpu = [s \in Sources |-> Unread]
    /\ seen = [f \in TscFunctions |-> {}]

Init ==
    /\ _lock = NoThread
    /\ _timings = EmptyMap
    /\ _total_counts = 0
    /\ pc = [t \in Threads |-> "idle"]
    /\ op = [t \in Threads |-> "none"]
    /\ time_end = [t \in Threads |-> Nil]
    /\ time_start = [t \in Threads |-> Nil]
    /\ difference = [t \in Threads |-> Nil]
    /\ reg = [t \in Threads |-> Nil]
    /\ percentile = [t \in Threads |-> Nil]
    /\ time = [t \in Threads |-> Nil]
    /\ accum = [t \in Threads |-> Nil]
    /\ max = [t \in Threads |-> Nil]
    /\ tmin = [t \in Threads |-> Nil]
    /\ tdelta = [t \in Threads |-> Nil]
    /\ itr = [t \in Threads |-> Nil]
    /\ ret = [t \in Threads |-> Nil]
    /\ ncalls = [t \in Threads |-> 0]
    /\ nclears = 0
    /\ recorded = EmptyBag
    /\ bumped = [t \in Threads |-> Nil]
    /\ avg_time = [t \in Threads |-> Nil]
    /\ avg_events = [t \in Threads |-> Nil]
    /\ avg = [t \in Threads |-> NoDouble]
    /\ time_out = [t \in Threads |-> Nil]
    /\ amount_out = [t \in Threads |-> Nil]
    /\ TscStart

\* ------------------------------------------------------- ordered iteration

\* One past the last element: _timings.end().  Every key is below it.
End == Modulus

SetMin(S) == CHOOSE x \in S : \A y \in S : x <= y

SetMax(S) == CHOOSE x \in S : \A y \in S : x >= y

\* _timings.begin(): std::map iterates its keys in ascending order.
Begin(m) == IF DOMAIN m = {} THEN End ELSE SetMin(DOMAIN m)

\* ++it
Advance(m, k) ==
    LET above == {x \in DOMAIN m : x > k}
    IN  IF above = {} THEN End ELSE SetMin(above)

\* Faulty variants: the two ends of the map exchanged.
FirstKeyLast(m) == IF DOMAIN m = {} THEN End ELSE SetMax(DOMAIN m)

\* Faulty variant: the count of the first entry in place of its key.
FirstKeyCount(m) == IF DOMAIN m = {} THEN End ELSE m[SetMin(DOMAIN m)]

\* _timings.begin()->first
FirstKey(m) == IF DOMAIN m = {} THEN End ELSE SetMin(DOMAIN m)

LastKeyFirst(m) == IF DOMAIN m = {} THEN End ELSE SetMin(DOMAIN m)

\* _timings.rbegin()->first
LastKey(m) == IF DOMAIN m = {} THEN End ELSE SetMax(DOMAIN m)

\* ------------------------------------------------------------ percentiles

\* profiler.hpp:131 and 176: threshold = 0.000001 = 1 / ThresholdDen.  A
\* percentile argument p of the model stands for the double p / ThresholdDen,
\* so the threshold is 1 and 1.0 is ThresholdDen.
ThresholdDen == 1000000

\* a/b >= c/d for b > 0 and d > 0, by comparing the continued fractions of
\* the two quotients; it multiplies nothing, so that large counts stay in
\* range.  On the arguments the model uses, the doubles the code compares
\* order the same way as these exact quotients.
RECURSIVE FracGeq(_, _, _, _)
FracGeq(a, b, c, d) ==
    IF c <= 0 THEN a >= 0 \/ c < 0
    ELSE IF a <= 0 THEN FALSE
    ELSE LET qa == a \div b
             qc == c \div d
             ra == a % b
             rc == c % d
         IN  IF qa # qc THEN qa > qc
             ELSE IF rc = 0 THEN TRUE
             ELSE IF ra = 0 THEN FALSE
             ELSE FracGeq(d, rc, b, ra)

\* profiler.hpp:140 and 185: (percentile - threshold) <= (0.0 + threshold)
AtOrBelowZero(p) == (p - 1) <= (0 + 1)

\* profiler.hpp:143 and 188: (percentile + threshold) >= (1.0 - threshold)
AtOrAboveOne(p) == (p + 1) >= (ThresholdDen - 1)

\* Faulty variant: the comparison without its tolerance, and strict.
ReachedEventsStrict(a, m, p) ==
    IF m = 0 THEN FALSE ELSE ~FracGeq(p, ThresholdDen, a, m)

\* profiler.hpp:201-202: accum / max >= percentile - threshold.  A division
\* by zero gives infinity, or not-a-number for 0/0, which compares false.
ReachedEvents(a, m, p) ==
    IF m = 0 THEN a > 0 ELSE FracGeq(a, m, p - 1, ThresholdDen)

\* Faulty variant: the comparison of the scan by time is turned around.
ReachedTimeBelow(c, d, p) ==
    IF d = 0 THEN FALSE ELSE FracGeq(p - 1, ThresholdDen, c, d)

\* Faulty variant: a span of zero matches every entry.
ReachedTimeAnySpan(c, d, p) ==
    IF d = 0 THEN TRUE ELSE FracGeq(c, d, p - 1, ThresholdDen)

\* profiler.hpp:156-159: cdelta / delta >= percentile - threshold, likewise.
ReachedTime(c, d, p) ==
    IF d = 0 THEN c > 0 ELSE FracGeq(c, d, p - 1, ThresholdDen)

\* Faulty variant: the guard for the empty engine is missing.
NothingTrackedNever(n) == FALSE

\* profiler.hpp:135 and 180: _total_counts == 0, nothing has been tracked.
NothingTracked(n) == n = 0

\* Faulty variant: the running sum is overwritten.
AccumulatedLast(a, c) == c

\* profiler.hpp:200: accum += itr.second
Accumulated(a, c) == (a + c) % Modulus

\* Faulty variant: a bucket's duration is added once, whatever its count.
TimeAddedOnce(tm, k, c) == (tm + k) % Modulus

\* profiler.hpp:106: time += kv.first * kv.second
TimeAdded(tm, k, c) == (tm + ((k * c) % Modulus)) % Modulus

\* Percentile arguments, in units of the threshold: 0.0, 0.5 and 1.0.
Percentiles == {0, ThresholdDen \div 2, ThresholdDen}

\* The one key whose entry differs between the maps m and n (Nil when there
\* is not exactly one); it records what a map update did.
ChangedKey(m, n) ==
    LET changed == {k \in DOMAIN m \cup DOMAIN n :
                      \/ k \notin DOMAIN m
                      \/ k \notin DOMAIN n
                      \/ m[k] # n[k]}
    IN  IF Cardinality(changed) = 1 THEN CHOOSE k \in changed : TRUE ELSE Nil

\* ------------------------------------------------------------------ track

\* profiler.hpp:49-59: the call, and the difference of its two arguments.
TrackCall(t, stamps) ==
    /\ pc[t] = "idle"
    /\ ncalls[t] < MaxCalls
    /\ \E e \in stamps, s \in stamps :
         /\ time_end' = [time_end EXCEPT ![t] = e]
         /\ time_start' = [time_start EXCEPT ![t] = s]
         /\ difference' = [difference EXCEPT ![t] = Difference(e, s)]
    /\ op' = [op EXCEPT ![t] = "track"]
    /\ ret' = [ret EXCEPT ![t] = Nil]
    /\ avg' = [avg EXCEPT ![t] = NoDouble]
    /\ bumped' = [bumped EXCEPT ![t] = Nil]
    /\ ncalls' = [ncalls EXCEPT ![t] = @ + 1]
    /\ pc' = [pc EXCEPT ![t] = "track_lock"]
    /\ percentile' = [percentile EXCEPT ![t] = Nil]
    /\ UNCHANGED <<slocals, _lock, _timings, _total_counts, reg, nclears,
                   recorded, alocals, outs>>
    /\ UNCHANGED tscvars

\* profiler.hpp:62
TrackLock(t) ==
    /\ pc[t] = "track_lock"
    /\ CanLock(t)
    /\ _lock' = t
    /\ pc' = [pc EXCEPT ![t] = "track_insert"]
    /\ UNCHANGED <<qlocals, _timings, _total_counts, op, locals, reg, ret,
                   avg, ncalls, nclears, recorded, bumped, alocals, outs>>
    /\ UNCHANGED tscvars

\* profiler.hpp:63-68
TrackInsert(t) ==
    /\ pc[t] = "track_insert"
    /\ _timings' = Insert(_timings, difference[t])
    /\ bumped' = [bumped EXCEPT ![t] = ChangedKey(_timings, _timings')]
    /\ pc' = [pc EXCEPT ![t] = "track_load"]
    /\ UNCHANGED <<qlocals, _lock, _total_counts, op, locals, reg, ret, avg,
                   ncalls, nclears, recorded, alocals, outs>>
    /\ UNCHANGED tscvars

\* profiler.hpp:71, the read of _total_counts++
TrackLoad(t) ==
    /\ pc[t] = "track_load"
    /\ reg' = [reg EXCEPT ![t] = _total_counts]
    /\ pc' = [pc EXCEPT ![t] = "track_store"]
    /\ UNCHANGED <<qlocals, _lock, _timings, _total_counts, op, locals, ret,
                   avg, ncalls, nclears, recorded, bumped, alocals, outs>>
    /\ UNCHANGED tscvars

\* profiler.hpp:71, the write of _total_counts++
TrackStore(t) ==
    /\ pc[t] = "track_store"
    /\ _total_counts' = Incremented(reg[t])
    /\ reg' = [reg EXCEPT ![t] = Nil]
    /\ pc' = [pc EXCEPT ![t] = "track_return"]
    /\ UNCHANGED <<qlocals, _lock, _timings, op, locals, ret, avg, ncalls,
                   nclears, recorded, bumped, alocals, outs>>
    /\ UNCHANGED tscvars

\* profiler.hpp:74-75: return difference; the unique_lock releases the mutex.
TrackReturn(t) ==
    /\ pc[t] = "track_return"
    /\ ret' = [ret EXCEPT ![t] = difference[t]]
    /\ recorded' = recorded (+) SetToBag({difference[t]})
    /\ _lock' = NoThread
    /\ pc' = [pc EXCEPT ![t] = "idle"]
    /\ UNCHANGED <<qlocals, _timings, _total_counts, op, locals, reg, avg,
                   ncalls, nclears, bumped, alocals, outs>>
    /\ UNCHANGED tscvars

\* ------------------------------------------------------------------ clear

\* profiler.hpp:79-80
ClearCall(t) ==
    /\ pc[t] = "idle"
    /\ nclears < MaxClears
    /\ nclears' = nclears + 1
    /\ op' = [op EXCEPT ![t] = "clear"]
    /\ time_end' = [time_end EXCEPT ![t] = Nil]
    /\ time_start' = [time_start EXCEPT ![t] = Nil]
    /\ difference' = [difference EXCEPT ![t] = Nil]
    /\ ret' = [ret EXCEPT ![t] = Nil]
    /\ avg' = [avg EXCEPT ![t] = NoDouble]
    /\ bumped' = [bumped EXCEPT ![t] = Nil]
    /\ pc' = [pc EXCEPT ![t] = "clear_lock"]
    /\ percentile' = [percentile EXCEPT ![t] = Nil]
    /\ UNCHANGED <<slocals, _lock, _timings, _total_counts, reg, ncalls,
                   recorded, alocals, outs>>
    /\ UNCHANGED tscvars

\* profiler.hpp:81
ClearLock(t) ==
    /\ pc[t] = "clear_lock"
    /\ CanLock(t)
    /\ _lock' = t
    /\ pc' = [pc EXCEPT ![t] = "clear_total"]
    /\ UNCHANGED <<qlocals, _timings, _total_counts, op, locals, reg, ret,
                   avg, ncalls, nclears, recorded, bumped, alocals, outs>>
    /\ UNCHANGED tscvars

\* profiler.hpp:82
ClearTotal(t) ==
    /\ pc[t] = "clear_total"
    /\ _total_counts' = 0
    /\ pc' = [pc EXCEPT ![t] = "clear_map"]
    /\ UNCHANGED <<qlocals, _lock, _timings, op, locals, reg, ret, avg,
                   ncalls, nclears, recorded, bumped, alocals, outs>>
    /\ UNCHANGED tscvars

\* profiler.hpp:83
ClearMap(t) ==
    /\ pc[t] = "clear_map"
    /\ _timings' = Cleared(_timings)
    /\ pc' = [pc EXCEPT ![t] = "clear_return"]
    /\ UNCHANGED <<qlocals, _lock, _total_counts, op, locals, reg, ret, avg,
                   ncalls, nclears, recorded, bumped, alocals, outs>>
    /\ UNCHANGED tscvars

\* profiler.hpp:84: the unique_lock releases the mutex.
ClearReturn(t) ==
    /\ pc[t] = "clear_return"
    /\ recorded' = EmptyBag
    /\ _lock' = NoThread
    /\ pc' = [pc EXCEPT ![t] = "idle"]
    /\ UNCHANGED <<qlocals, _timings, _total_counts, op, locals, reg, ret,
                   avg, ncalls, nclears, bumped, alocals, outs>>
    /\ UNCHANGED tscvars

\* ---------------------------------------------------------------- queries

\* A query begins: the thread's frame holds nothing of its previous call.
Enter(t, name) ==
    /\ pc[t] = "idle"
    /\ op' = [op EXCEPT ![t] = name]
    /\ time_end' = [time_end EXCEPT ![t] = Nil]
    /\ time_start' = [time_start EXCEPT ![t] = Nil]
    /\ difference' = [difference EXCEPT ![t] = Nil]
    /\ ret' = [ret EXCEPT ![t] = Nil]
    /\ avg' = [avg EXCEPT ![t] = NoDouble]
    /\ bumped' = [bumped EXCEPT ![t] = Nil]

\* A query returns v: its locals go out of scope; its argument stays, as
\* the arguments of track do, until the thread's next call.
Leave(t, v) ==
    /\ ret' = [ret EXCEPT ![t] = v]
    /\ UNCHANGED <<percentile, avg>>
    /\ time' = [time EXCEPT ![t] = Nil]
    /\ accum' = [accum EXCEPT ![t] = Nil]
    /\ max' = [max EXCEPT ![t] = Nil]
    /\ tmin' = [tmin EXCEPT ![t] = Nil]
    /\ tdelta' = [tdelta EXCEPT ![t] = Nil]
    /\ itr' = [itr EXCEPT ![t] = Nil]
    /\ pc' = [pc EXCEPT ![t] = "idle"]

\* profiler.hpp:92-93
TotalEventsCall(t) ==
    /\ Enter(t, "total_events")
    /\ pc' = [pc EXCEPT ![t] = "te_read"]
    /\ percentile' = [percentile EXCEPT ![t] = Nil]
    /\ UNCHANGED <<slocals, _lock, _timings, _total_counts, reg, ncalls,
                   nclears, recorded, alocals, outs>>
    /\ UNCHANGED tscvars

\* profiler.hpp:94: return _total_counts, read without the mutex: the value
\* the counter holds at that instant, before or after a concurrent write.
TotalEventsReturn(t) ==
    /\ pc[t] = "te_read"
    /\ op[t] = "total_events"
    /\ Leave(t, _total_counts)
    /\ UNCHANGED <<_lock, _timings, _total_counts, op, locals, reg, ncalls,
                   nclears, recorded, bumped, alocals, outs>>
    /\ UNCHANGED tscvars

\* profiler.hpp:101-103
TotalTimeCall(t) ==
    /\ Enter(t, "total_time")
    /\ time' = [time EXCEPT ![t] = 0]
    /\ pc' = [pc EXCEPT ![t] = "tt_lock"]
    /\ percentile' = [percentile EXCEPT ![t] = Nil]
    /\ UNCHANGED <<accum, max, tmin, tdelta, itr, _lock, _timings,
                   _total_counts, reg, ncalls, nclears, recorded, alocals,
                   outs>>
    /\ UNCHANGED tscvars

\* profiler.hpp:104-105: lock, and the range-for starts at begin().
TotalTimeLock(t) ==
    /\ pc[t] = "tt_lock"
    /\ CanLock(t)
    /\ _lock' = t
    /\ itr' = [itr EXCEPT ![t] = Begin(_timings)]
    /\ pc' = [pc EXCEPT ![t] = "tt_loop"]
    /\ UNCHANGED <<percentile, time, accum, max, tmin, tdelta, _timings,
                   _total_counts, op, locals, reg, ret, avg, ncalls, nclears,
                   recorded, bumped, alocals, outs>>
    /\ UNCHANGED tscvars

\* profiler.hpp:105-107: one iteration, time += kv.first * kv.second, or the
\* end of the loop.  (An iterator to an erased element is met only if the
\* map changes during the scan; the loop then ends.)
TotalTimeLoop(t) ==
    /\ pc[t] = "tt_loop"
    /\ IF itr[t] \in DOMAIN _timings
       THEN /\ time' = [time EXCEPT ![t] =
                 TimeAdded(@, itr[t], _timings[itr[t]])]
            /\ itr' = [itr EXCEPT ![t] = Advance(_timings, itr[t])]
            /\ pc' = pc
       ELSE /\ pc' = [pc EXCEPT ![t] = "tt_return"]
            /\ UNCHANGED <<time, itr>>
    /\ UNCHANGED <<percentile, accum, max, tmin, tdelta, _lock, _timings,
                   _total_counts, op, locals, reg, ret, avg, ncalls, nclears,
                   recorded, bumped, alocals, outs>>
    /\ UNCHANGED tscvars

\* profiler.hpp:108-109: return time; the unique_lock releases the mutex.
TotalTimeReturn(t) ==
    /\ pc[t] = "tt_return"
    /\ op[t] = "total_time"
    /\ Leave(t, time[t])
    /\ _lock' = NoThread
    /\ UNCHANGED <<_timings, _total_counts, op, locals, reg, ncalls, nclears,
                   recorded, bumped, alocals, outs>>
    /\ UNCHANGED tscvars

\* profiler.hpp:173-176
PercentileEventsCall(t, ps) ==
    /\ Enter(t, "percentile_events")
    /\ \E p \in ps : percentile' = [percentile EXCEPT ![t] = p]
    /\ pc' = [pc EXCEPT ![t] = "pe_lock"]
    /\ UNCHANGED <<time, accum, max, tmin, tdelta, itr, _lock, _timings,
                   _total_counts, reg, ncalls, nclears, recorded, alocals,
                   outs>>
    /\ UNCHANGED tscvars

\* profiler.hpp:177
PercentileEventsLock(t) ==
    /\ pc[t] = "pe_lock"
    /\ CanLock(t)
    /\ _lock' = t
    /\ pc' = [pc EXCEPT ![t] = "pe_check"]
    /\ UNCHANGED <<qlocals, _timings, _total_counts, op, locals, reg, ret,
                   avg, ncalls, nclears, recorded, bumped, alocals, outs>>
    /\ UNCHANGED tscvars

\* Faulty variant: total_events locks the mutex as the other queries do.
TotalEventsLocksToo == TRUE

\* profiler.hpp:92-95: total_events constructs no lock on _lock.
TotalEventsLocks == FALSE

\* profiler.hpp:179-195: the three early returns (the lock_guard releases
\* the mutex), or accum = 0 and the call of total_events() that initialises
\* max, made with the mutex held.
PercentileEventsCheck(t) ==
    /\ pc[t] = "pe_check"
    /\ IF NothingTracked(_total_counts)
       THEN Leave(t, 0) /\ _lock' = NoThread
       ELSE IF AtOrBelowZero(percentile[t])
       THEN Leave(t, FirstKey(_timings)) /\ _lock' = NoThread
       ELSE IF AtOrAboveOne(percentile[t])
       THEN Leave(t, LastKey(_timings)) /\ _lock' = NoThread
       ELSE /\ accum' = [accum EXCEPT ![t] = 0]
            /\ pc' = [pc EXCEPT ![t] = "pe_total"]
            /\ UNCHANGED <<percentile, time, max, tmin, tdelta, itr, ret, avg,
                           _lock>>
    /\ UNCHANGED <<_timings, _total_counts, op, locals, reg, ncalls, nclears,
                   recorded, bumped, alocals, outs>>
    /\ UNCHANGED tscvars

\* profiler.hpp:195-198: inside percentile_events, the body of total_events
\* (94) returns _total_counts into max; it would wait for the mutex if
\* total_events locked it.  The range-for then starts at begin().
PercentileEventsTotal(t) ==
    /\ pc[t] = "pe_total"
    /\ TotalEventsLocks => CanLock(t)
    /\ max' = [max EXCEPT ![t] = _total_counts]
    /\ itr' = [itr EXCEPT ![t] = Begin(_timings)]
    /\ pc' = [pc EXCEPT ![t] = "pe_loop"]
    /\ UNCHANGED <<percentile, time, accum, tmin, tdelta, _lock, _timings,
                   _total_counts, op, locals, reg, ret, avg, ncalls, nclears,
                   recorded, bumped, alocals, outs>>
    /\ UNCHANGED tscvars

\* profiler.hpp:198-207: one iteration of the scan, which returns the key
\* once the running share of events reaches the percentile, or the return
\* after the loop.
PercentileEventsLoop(t) ==
    /\ pc[t] = "pe_loop"
    /\ IF itr[t] \in DOMAIN _timings
       THEN LET a == Accumulated(accum[t], _timings[itr[t]])
            IN  IF ReachedEvents(a, max[t], percentile[t])
                THEN Leave(t, itr[t]) /\ _lock' = NoThread
                ELSE /\ accum' = [accum EXCEPT ![t] = a]
                     /\ itr' = [itr EXCEPT ![t] = Advance(_timings, itr[t])]
                     /\ UNCHANGED <<percentile, time, max, tmin, tdelta, ret,
                                    avg, pc, _lock>>
       ELSE Leave(t, LastKey(_timings)) /\ _lock' = NoThread
    /\ UNCHANGED <<_timings, _total_counts, op, locals, reg, ncalls, nclears,
                   recorded, bumped, alocals, outs>>
    /\ UNCHANGED tscvars

\* profiler.hpp:128-131.  The reference parameters time and amount are bound
\* to the caller's objects (outs); no statement of the function assigns to
\* them, so every step of percentile_time leaves outs unchanged.
PercentileTimeCall(t, ps) ==
    /\ Enter(t, "percentile_time")
    /\ \E p \in ps : percentile' = [percentile EXCEPT ![t] = p]
    /\ pc' = [pc EXCEPT ![t] = "pt_lock"]
    /\ UNCHANGED <<time, accum, max, tmin, tdelta, itr, _lock, _timings,
                   _total_counts, reg, ncalls, nclears, recorded, alocals,
                   outs>>
    /\ UNCHANGED tscvars

\* profiler.hpp:132
PercentileTimeLock(t) ==
    /\ pc[t] = "pt_lock"
    /\ CanLock(t)
    /\ _lock' = t
    /\ pc' = [pc EXCEPT ![t] = "pt_check"]
    /\ UNCHANGED <<qlocals, _timings, _total_counts, op, locals, reg, ret,
                   avg, ncalls, nclears, recorded, bumped, alocals, outs>>
    /\ UNCHANGED tscvars

\* profiler.hpp:134-152: the three early returns, or the set-up of the scan.
PercentileTimeCheck(t) ==
    /\ pc[t] = "pt_check"
    /\ IF NothingTracked(_total_counts)
       THEN Leave(t, 0) /\ _lock' = NoThread
       ELSE IF AtOrBelowZero(percentile[t])
       THEN Leave(t, FirstKey(_timings)) /\ _lock' = NoThread
       ELSE IF AtOrAboveOne(percentile[t])
       THEN Leave(t, LastKey(_timings)) /\ _lock' = NoThread
       ELSE /\ tmin' = [tmin EXCEPT ![t] = FirstKey(_timings)]
            /\ tdelta' = [tdelta EXCEPT ![t] =
                 LastKey(_timings) - FirstKey(_timings)]
            /\ itr' = [itr EXCEPT ![t] = Begin(_timings)]
            /\ pc' = [pc EXCEPT ![t] = "pt_loop"]
            /\ UNCHANGED <<percentile, time, accum, max, ret, avg, _lock>>
    /\ UNCHANGED <<_timings, _total_counts, op, locals, reg, ncalls, nclears,
                   recorded, bumped, alocals, outs>>
    /\ UNCHANGED tscvars

\* profiler.hpp:154-164: one iteration of the scan, which returns the key
\* once its position in the span reaches the percentile, or the return
\* after the loop.
PercentileTimeLoop(t) ==
    /\ pc[t] = "pt_loop"
    /\ IF itr[t] \in DOMAIN _timings
       THEN IF ReachedTime((itr[t] - tmin[t]) % Modulus, tdelta[t],
                           percentile[t])
            THEN Leave(t, itr[t]) /\ _lock' = NoThread
            ELSE /\ itr' = [itr EXCEPT ![t] = Advance(_timings, itr[t])]
                 /\ UNCHANGED <<percentile, time, accum, max, tmin, tdelta,
                                ret, avg, pc, _lock>>
       ELSE Leave(t, LastKey(_timings)) /\ _lock' = NoThread
    /\ UNCHANGED <<_timings, _total_counts, op, locals, reg, ncalls, nclears,
                   recorded, bumped, alocals, outs>>
    /\ UNCHANGED tscvars

\* ----------------------------------------------------------- average_time

\* Faulty variant: the empty engine is guarded and gives 0.
QuotientGuarded(n, d) == IF d = 0 THEN <<0, 1>> ELSE <<n, d>>

\* profiler.hpp:117: static_cast<double>(..) / static_cast<double>(..), the
\* quotient of two doubles: 0/0 is the not-a-number <<0, 0>>, a positive
\* numerator over 0 is the infinity <<1, 0>>, anything else the quotient
\* <<n, d>> of the model's integers, all of which a double holds exactly.
Quotient(n, d) ==
    IF d = 0 THEN (IF n = 0 THEN <<0, 0>> ELSE <<1, 0>>) ELSE <<n, d>>

NotANumber == <<0, 0>>

\* profiler.hpp:115-117: the call.  The two operands of the division are
\* calls whose order of evaluation the language leaves open: either
\* total_time() is entered first or total_events() is.
AverageTimeCall(t) ==
    /\ Enter(t, "average_time")
    /\ percentile' = [percentile EXCEPT ![t] = Nil]
    /\ \/ /\ time' = [time EXCEPT ![t] = 0]
          /\ pc' = [pc EXCEPT ![t] = "tt_lock"]
       \/ /\ pc' = [pc EXCEPT ![t] = "te_read"]
          /\ UNCHANGED time
    /\ UNCHANGED <<accum, max, tmin, tdelta, itr, _lock, _timings,
                   _total_counts, reg, ncalls, nclears, recorded, alocals,
                   outs>>
    /\ UNCHANGED tscvars

\* profiler.hpp:117: total_time() returns into the division (108-109, the
\* unique_lock releases the mutex); total_events() follows unless it came
\* first.
AverageTimeOperandTime(t) ==
    /\ pc[t] = "tt_return"
    /\ op[t] = "average_time"
    /\ avg_time' = [avg_time EXCEPT ![t] = time[t]]
    /\ time' = [time EXCEPT ![t] = Nil]
    /\ itr' = [itr EXCEPT ![t] = Nil]
    /\ _lock' = NoThread
    /\ pc' = [pc EXCEPT ![t] =
                IF avg_events[t] = Nil THEN "te_read" ELSE "avg_divide"]
    /\ UNCHANGED <<percentile, accum, max, tmin, tdelta, _timings,
                   _total_counts, op, locals, reg, ret, avg, ncalls, nclears,
                   recorded, bumped, avg_events, outs>>
    /\ UNCHANGED tscvars

\* profiler.hpp:117: total_events() returns _total_counts into the division
\* (94, read without the mutex); total_time() follows unless it came first.
AverageTimeOperandEvents(t) ==
    /\ pc[t] = "te_read"
    /\ op[t] = "average_time"
    /\ avg_events' = [avg_events EXCEPT ![t] = _total_counts]
    /\ IF avg_time[t] = Nil
       THEN /\ time' = [time EXCEPT ![t] = 0]
            /\ pc' = [pc EXCEPT ![t] = "tt_lock"]
       ELSE /\ pc' = [pc EXCEPT ![t] = "avg_divide"]
            /\ UNCHANGED time
    /\ UNCHANGED <<percentile, accum, max, tmin, tdelta, itr, _lock, _timings,
                   _total_counts, op, locals, reg, ret, avg, ncalls, nclears,
                   recorded, bumped, avg_time, outs>>
    /\ UNCHANGED tscvars

\* profiler.hpp:117: the division, and the return of its value.
AverageTimeReturn(t) ==
    /\ pc[t] = "avg_divide"
    /\ avg' = [avg EXCEPT ![t] = Quotient(avg_time[t], avg_events[t])]
    /\ avg_time' = [avg_time EXCEPT ![t] = Nil]
    /\ avg_events' = [avg_events EXCEPT ![t] = Nil]
    /\ pc' = [pc EXCEPT ![t] = "idle"]
    /\ UNCHANGED <<qlocals, _lock, _timings, _total_counts, op, locals, reg,
                   ret, ncalls, nclears, recorded, bumped, outs>>
    /\ UNCHANGED tscvars

\* ------------------------------------------------------------------- stop

\* Faulty variant: the operands of the wrapped branch exchanged.
StopDifferenceSwapped(e, s) ==
    IF e >= s THEN e - s ELSE ((MAX_U64 - s) + e) % Modulus

\* hpc_profiler.hpp:93-100 and tsc_profiler.hpp:110-118: diff, from the
\* timestamp e read by stop and the begin timestamp s it was given.
StopDifference(e, s) ==
    IF e >= s THEN e - s ELSE ((MAX_U64 - e) + s) % Modulus

\* hpc_profiler.hpp:85-100 (tsc_profiler.hpp:100-118): the call with the
\* begin timestamp time, kept in time_start; the clock is read into
\* time_end, and diff, kept in difference, is computed.
StopCall(t, stamps) ==
    /\ pc[t] = "idle"
    /\ ncalls[t] < MaxCalls
    /\ \E b \in stamps, n \in stamps :
         /\ time_start' = [time_start EXCEPT ![t] = b]
         /\ time_end' = [time_end EXCEPT ![t] = n]
         /\ difference' = [difference EXCEPT ![t] = StopDifference(n, b)]
    /\ op' = [op EXCEPT ![t] = "stop"]
    /\ ret' = [ret EXCEPT ![t] = Nil]
    /\ avg' = [avg EXCEPT ![t] = NoDouble]
    /\ bumped' = [bumped EXCEPT ![t] = Nil]
    /\ ncalls' = [ncalls EXCEPT ![t] = @ + 1]
    /\ pc' = [pc EXCEPT ![t] = "stop_lock"]
    /\ percentile' = [percentile EXCEPT ![t] = Nil]
    /\ UNCHANGED <<slocals, _lock, _timings, _total_counts, reg, nclears,
                   recorded, alocals, outs>>
    /\ UNCHANGED tscvars

\* hpc_profiler.hpp:102 (tsc_profiler.hpp:120)
StopLock(t) ==
    /\ pc[t] = "stop_lock"
    /\ CanLock(t)
    /\ _lock' = t
    /\ pc' = [pc EXCEPT ![t] = "stop_insert"]
    /\ UNCHANGED <<qlocals, _timings, _total_counts, op, locals, reg, ret,
                   avg, ncalls, nclears, recorded, bumped, alocals, outs>>
    /\ UNCHANGED tscvars

\* hpc_profiler.hpp:105-110 (tsc_profiler.hpp:123-128): find diff, and
\* increment its count or emplace it with the count 1.
StopInsert(t) ==
    /\ pc[t] = "stop_insert"
    /\ LET diff == difference[t]
       IN  /\ _timings' =
                IF diff \in DOMAIN _timings
                THEN [_timings EXCEPT ![diff] = (@ + 1) % Modulus]
                ELSE [k \in DOMAIN _timings \cup {diff} |->
                        IF k = diff THEN 1 ELSE _timings[k]]
           /\ bumped' = [bumped EXCEPT ![t] = diff]
    /\ pc' = [pc EXCEPT ![t] = "stop_load"]
    /\ UNCHANGED <<qlocals, _lock, _total_counts, op, locals, reg, ret, avg,
                   ncalls, nclears, recorded, alocals, outs>>
    /\ UNCHANGED tscvars

\* hpc_profiler.hpp:113 (tsc_profiler.hpp:131): _total_counts++ reads ...
StopLoad(t) ==
    /\ pc[t] = "stop_load"
    /\ reg' = [reg EXCEPT ![t] = _total_counts]
    /\ pc' = [pc EXCEPT ![t] = "stop_store"]
    /\ UNCHANGED <<qlocals, _lock, _timings, _total_counts, op, locals, ret,
                   avg, ncalls, nclears, recorded, bumped, alocals, outs>>
    /\ UNCHANGED tscvars

\* ... and writes the counter.
StopStore(t) ==
    /\ pc[t] = "stop_store"
    /\ _total_counts' = (reg[t] + 1) % Modulus
    /\ reg' = [reg EXCEPT ![t] = Nil]
    /\ pc' = [pc EXCEPT ![t] = "stop_return"]
    /\ UNCHANGED <<qlocals, _lock, _timings, op, locals, ret, avg, ncalls,
                   nclears, recorded, bumped, alocals, outs>>
    /\ UNCHANGED tscvars

\* hpc_profiler.hpp:116-117 (tsc_profiler.hpp:134-135): return diff; the
\* unique_lock releases the mutex.
StopReturn(t) ==
    /\ pc[t] = "stop_return"
    /\ ret' = [ret EXCEPT ![t] = difference[t]]
    /\ recorded' = recorded (+) SetToBag({difference[t]})
    /\ _lock' = NoThread
    /\ pc' = [pc EXCEPT ![t] = "idle"]
    /\ UNCHANGED <<qlocals, _timings, _total_counts, op, locals, reg, avg,
                   ncalls, nclears, bumped, alocals, outs>>
    /\ UNCHANGED tscvars

\* ------------------------------------------------------------- the system

Next ==
    \E t \in Threads :
        \/ TrackCall(t, Stamps)
        \/ TrackLock(t)
        \/ TrackInsert(t)
        \/ TrackLoad(t)
        \/ TrackStore(t)
        \/ TrackReturn(t)
        \/ ClearCall(t)
        \/ ClearLock(t)
        \/ ClearTotal(t)
        \/ ClearMap(t)
        \/ ClearReturn(t)

Spec == Init /\ [][Next]_vars

\* Timestamps handed to track where the queries run beside it.
QStamps == {0, MAX_U64 - 2}

\* The engine with its queries: track, clear and every statistics method.
NextQ ==
    \E t \in Threads :
        \/ TrackCall(t, QStamps)
        \/ TrackLock(t)
        \/ TrackInsert(t)
        \/ TrackLoad(t)
        \/ TrackStore(t)
        \/ TrackReturn(t)
        \/ ClearCall(t)
        \/ ClearLock(t)
        \/ ClearTotal(t)
        \/ ClearMap(t)
        \/ ClearReturn(t)
        \/ TotalEventsCall(t)
        \/ TotalEventsReturn(t)
        \/ TotalTimeCall(t)
        \/ TotalTimeLock(t)
        \/ TotalTimeLoop(t)
        \/ TotalTimeReturn(t)
        \/ PercentileEventsCall(t, Percentiles)
        \/ PercentileEventsLock(t)
        \/ PercentileEventsCheck(t)
        \/ PercentileEventsTotal(t)
        \/ PercentileEventsLoop(t)
        \/ PercentileTimeCall(t, Percentiles)
        \/ PercentileTimeLock(t)
        \/ PercentileTimeCheck(t)
        \/ PercentileTimeLoop(t)

SpecQ == Init /\ [][NextQ]_vars

\* ------------------------------------------- the percentiles of a histogram

\* A count of the order of the events the example program records
\* (examples/usage/main.cpp records 1000000 per run), beside which one
\* more event weighs less than the threshold.
Big == 3000000

PctKeys == {10, 20, 30}

PctCounts == {1, 2, Big}

\* Percentile arguments on both sides of the two early returns and within
\* the scan, in units of the threshold: 0, 1e-6, 2e-6, 3e-6, 0.25, 0.5,
\* 0.75, 0.999997, 0.999998, 0.999999 and 1.0.
FinePercentiles ==
    {0, 1, 2, 3, ThresholdDen \div 4, ThresholdDen \div 2,
     3 * (ThresholdDen \div 4), ThresholdDen - 3, ThresholdDen - 2,
     ThresholdDen - 1, ThresholdDen}

RECURSIVE SumCounts(_)
\* The sum of the counts of the buckets of m.
SumCounts(m) ==
    IF DOMAIN m = {} THEN 0
    ELSE LET k == CHOOSE x \in DOMAIN m : TRUE
         IN  m[k] + SumCounts([x \in DOMAIN m \ {k} |-> m[x]])

\* The engine as some sequence of track calls leaves it: any histogram over
\* PctKeys with counts in PctCounts, and its total.
InitPct ==
    /\ _lock = NoThread
    /\ _timings \in UNION {[ks -> PctCounts] : ks \in SUBSET PctKeys}
    /\ _total_counts = SumCounts(_timings)
    /\ recorded = _timings
    /\ pc = [t \in Threads |-> "idle"]
    /\ op = [t \in Threads |-> "none"]
    /\ time_end = [t \in Threads |-> Nil]
    /\ time_start = [t \in Threads |-> Nil]
    /\ difference = [t \in Threads |-> Nil]
    /\ reg = [t \in Threads |-> Nil]
    /\ percentile = [t \in Threads |-> Nil]
    /\ time = [t \in Threads |-> Nil]
    /\ accum = [t \in Threads |-> Nil]
    /\ max = [t \in Threads |-> Nil]
    /\ tmin = [t \in Threads |-> Nil]
    /\ tdelta = [t \in Threads |-> Nil]
    /\ itr = [t \in Threads |-> Nil]
    /\ ret = [t \in Threads |-> Nil]
    /\ ncalls = [t \in Threads |-> 0]
    /\ nclears = 0
    /\ bumped = [t \in Threads |-> Nil]
    /\ avg_time = [t \in Threads |-> Nil]
    /\ avg_events = [t \in Threads |-> Nil]
    /\ avg = [t \in Threads |-> NoDouble]
    /\ time_out = [t \in Threads |-> Nil]
    /\ amount_out = [t \in Threads |-> Nil]
    /\ TscStart

NextPct ==
    \E t \in Threads :
        \/ PercentileEventsCall(t, FinePercentiles)
        \/ PercentileEventsLock(t)
        \/ PercentileEventsCheck(t)
        \/ PercentileEventsTotal(t)
        \/ PercentileEventsLoop(t)
        \/ PercentileTimeCall(t, FinePercentiles)
        \/ PercentileTimeLock(t)
        \/ PercentileTimeCheck(t)
        \/ PercentileTimeLoop(t)

SpecPct == InitPct /\ [][NextPct]_vars

\* Percentile arguments inside and outside of [0, 1], in units of the
\* threshold: -1.0, -2e-6, 0.0, 0.5, 1.0, 1.000002 and 2.0.
WidePercentiles ==
    {0 - ThresholdDen, 0 - 2, 0, ThresholdDen \div 2, ThresholdDen,
     ThresholdDen + 2, 2 * ThresholdDen}

\* The percentile queries of SpecPct, for arguments of any sign and size.
NextWide ==
    \E t \in Threads :
        \/ PercentileEventsCall(t, WidePercentiles)
        \/ PercentileEventsLock(t)
        \/ PercentileEventsCheck(t)
        \/ PercentileEventsTotal(t)
        \/ PercentileEventsLoop(t)
        \/ PercentileTimeCall(t, WidePercentiles)
        \/ PercentileTimeLock(t)
        \/ PercentileTimeCheck(t)
        \/ PercentileTimeLoop(t)

SpecWide == InitPct /\ [][NextWide]_vars

\* ------------------------------------------------ stop beside track's rules

\* An engine of hpc_profiler or tsc_profiler: its threads stop and clear.
NextStop ==
    \E t \in Threads :
        \/ StopCall(t, Stamps)
        \/ StopLock(t)
        \/ StopInsert(t)
        \/ StopLoad(t)
        \/ StopStore(t)
        \/ StopReturn(t)
        \/ ClearCall(t)
        \/ ClearLock(t)
        \/ ClearTotal(t)
        \/ ClearMap(t)
        \/ ClearReturn(t)

SpecStop == Init /\ [][NextStop]_vars

\* ------------------------------------------------------ every operation

\* A step of thread t in any operation of the engine.
Step(t, stamps, ps) ==
    \/ TrackCall(t, stamps)
    \/ TrackLock(t)
    \/ TrackInsert(t)
    \/ TrackLoad(t)
    \/ TrackStore(t)
    \/ TrackReturn(t)
    \/ StopCall(t, stamps)
    \/ StopLock(t)
    \/ StopInsert(t)
    \/ StopLoad(t)
    \/ StopStore(t)
    \/ StopReturn(t)
    \/ ClearCall(t)
    \/ ClearLock(t)
    \/ ClearTotal(t)
    \/ ClearMap(t)
    \/ ClearReturn(t)
    \/ TotalEventsCall(t)
    \/ TotalEventsReturn(t)
    \/ TotalTimeCall(t)
    \/ TotalTimeLock(t)
    \/ TotalTimeLoop(t)
    \/ TotalTimeReturn(t)
    \/ AverageTimeCall(t)
    \/ AverageTimeOperandTime(t)
    \/ AverageTimeOperandEvents(t)
    \/ AverageTimeReturn(t)
    \/ PercentileEventsCall(t, ps)
    \/ PercentileEventsLock(t)
    \/ PercentileEventsCheck(t)
    \/ PercentileEventsTotal(t)
    \/ PercentileEventsLoop(t)
    \/ PercentileTimeCall(t, ps)
    \/ PercentileTimeLock(t)
    \/ PercentileTimeCheck(t)
    \/ PercentileTimeLoop(t)

\* One thread alone uses the engine: every call runs from its first step to
\* its return with nothing beside it.
NextOne == Step("t1", QStamps, Percentiles)

SpecOne == Init /\ [][NextOne]_vars

\* All threads use the engine; one duration and the median are enough to
\* take every path to and from the mutex.
FairStamps == {0}

FairPercentiles == {ThresholdDen \div 2}

NextAll == \E t \in Threads : Step(t, FairStamps, FairPercentiles)

\* The steps in which thread t takes the mutex.
Acquire(t) ==
    \/ TrackLock(t)
    \/ StopLock(t)
    \/ ClearLock(t)
    \/ TotalTimeLock(t)
    \/ PercentileEventsLock(t)
    \/ PercentileTimeLock(t)

\* The steps of thread t inside a call that wait for nothing.
Proceed(t) ==
    \/ TrackInsert(t) \/ TrackLoad(t) \/ TrackStore(t) \/ TrackReturn(t)
    \/ StopInsert(t) \/ StopLoad(t) \/ StopStore(t) \/ StopReturn(t)
    \/ ClearTotal(t) \/ ClearMap(t) \/ ClearReturn(t)
    \/ TotalEventsReturn(t)
    \/ TotalTimeLoop(t) \/ TotalTimeReturn(t)
    \/ AverageTimeOperandTime(t) \/ AverageTimeOperandEvents(t)
    \/ AverageTimeReturn(t)
    \/ PercentileEventsCheck(t) \/ PercentileEventsTotal(t)
    \/ PercentileEventsLoop(t)
    \/ PercentileTimeCheck(t) \/ PercentileTimeLoop(t)

\* Fair scheduling: a thread that can take a step inside a call takes one
\* eventually, and a thread that finds the mutex free again and again gets
\* it eventually.  Whether a thread calls at all is left open.
Fairness ==
    \A t \in Threads : WF_vars(Proceed(t)) /\ SF_vars(Acquire(t))

SpecFair == Init /\ [][NextAll]_vars /\ Fairness

\* ------------------------------------------- average_time beside the writers

\* Timestamps whose differences are the durations 0 and 1.
AvgStamps == {0, 1}

\* The threads record, clear and take the average.
NextAvg ==
    \E t \in Threads :
        \/ TrackCall(t, AvgStamps)
        \/ TrackLock(t)
        \/ TrackInsert(t)
        \/ TrackLoad(t)
        \/ TrackStore(t)
        \/ TrackReturn(t)
        \/ ClearCall(t)
        \/ ClearLock(t)
        \/ ClearTotal(t)
        \/ ClearMap(t)
        \/ ClearReturn(t)
        \/ AverageTimeCall(t)
        \/ TotalTimeLock(t)
        \/ TotalTimeLoop(t)
        \/ AverageTimeOperandTime(t)
        \/ AverageTimeOperandEvents(t)
        \/ AverageTimeReturn(t)

SpecAvg == Init /\ [][NextAvg]_vars

\* ------------------------------------------------- tsc.cpp: tsc_initialize

\* Number of bits of the model's registers and of its int32_t.
RegBits == 8

\* std::numeric_limits<int32_t>::min() and max()
IntMin == 0 - 2 ^ (RegBits - 1)

IntMax == 2 ^ (RegBits - 1) - 1

\* The bits of a register read as the int32_t of regs[].
ToInt(v) == ((v - IntMin) % (2 ^ RegBits)) + IntMin

\* An int32_t converted to unsigned int, as a comparison with the literal
\* 0x80000001 converts it.
ToUnsigned(v) == v % (2 ^ RegBits)

\* An int32_t converted to uint64_t.
ToU64(v) == v % Modulus

Abs(v) == IF v < 0 THEN 0 - v ELSE v

\* The quotient of two ints, truncated towards zero.
TruncDiv(a, b) ==
    IF (a >= 0) = (b > 0)
    THEN Abs(a) \div Abs(b)
    ELSE 0 - (Abs(a) \div Abs(b))

\* tsc.cpp:80, leaf 0x15
LeafCrystal == 21

\* tsc.cpp:88-89, leaf 0x16
LeafBase == 22

\* tsc.cpp:41-76: the extended leaf 0x80000000 + n, the top bit of a
\* register and n.
ExtendedLeaf(n) == 2 ^ (RegBits - 1) + n

\* tsc.cpp:92 and 111, MHz -> Hz
MHzToHz == 1000000

\* tsc.cpp:91-92: regs[0] & 0xFFFF, the low half of the register.
LowHalf(v) == ToUnsigned(v) % (2 ^ (RegBits \div 2))

\* EAX of leaf 0x0: the highest basic leaf is below 0x15, is 0x15, is 0x16.
BasicMax == {0, LeafCrystal, LeafBase}

\* EAX of leaf 0x80000000: no extended leaf, up to 0x80000001, up to
\* 0x80000007.
ExtendedMax == {0, ExtendedLeaf(1), ExtendedLeaf(7)}

\* A feature bit of EDX.
Bits == {0, 1}

\* <<EAX, EBX, ECX>> of leaf 0x15: one of the three zero; a small product;
\* a quotient of zero; a product above the largest int; a negative
\* divisor (all bits set are -1 as an int); and the product of the
\* smallest int and -1, over -1.
CrystalRegisters ==
    {<<0, 2, 2>>, <<2, 0, 2>>, <<2, 2, 0>>, <<2, 2, 2>>,
     <<2, 2 ^ (RegBits - 1) - 1, 2>>,
     <<2, 2, 2 ^ (RegBits - 1) - 1>>,
     <<2, 2 ^ RegBits - 1, 2>>,
     <<2 ^ RegBits - 1, 2 ^ RegBits - 1, 2 ^ (RegBits - 1)>>}

\* EAX of leaf 0x16: zero, 3 MHz, and a value with an empty low half.
BaseRegisters == {0, 3, 2 ^ (RegBits \div 2)}

\* RegGetValueW: <<1, f>> on ERROR_SUCCESS with ~Mhz = f, <<0, 0>> else.
RegistryValues == {<<0, 0>>, <<1, 3>>}

\* The process has been ended by a hardware trap.
Trap == 0 - 2

\* The machine answers source s with v: the answer it gave before or, the
\* first time, any one of S.
Answers(s, S, v) ==
    /\ v \in S
    /\ cpu[s] \in {Unread, v}
    /\ cpu' = [cpu EXCEPT ![s] = v]

\* tsc.cpp:85: p / d on ints, converted to uint64_t.  INT_MIN / -1 has no
\* defined value: the division traps, or the build gives INT_MIN.
Divided(p, d) ==
    IF p = IntMin /\ d = 0 - 1
    THEN {Trap, ToU64(IntMin)}
    ELSE {ToU64(TruncDiv(p, d))}

\* tsc.cpp:85: (regs[2] * regs[0]) / regs[1].  A product outside of int has
\* no defined value: the build multiplies in 32 bits and the product wraps,
\* or it multiplies in the width of the result.  Which of these values a
\* build gives is the same every time it runs the statement.
CrystalFrequency(eax, ebx, ecx) ==
    LET product == ecx * eax
    IN  IF IntMin <= product /\ product <= IntMax
        THEN Divided(product, ebx)
        ELSE Divided(ToInt(product), ebx) \cup {ToU64(TruncDiv(product, ebx))}

\* Faulty variant: the invariance is asked without the availability.
InvariantAskedAlone(available, m) == ToUnsigned(m) >= ExtendedLeaf(7)

\* tsc.cpp:73: tsc_available && (max_cpuidex_function >= 0x80000007)
InvariantAsked(available, m) ==
    available /\ ToUnsigned(m) >= ExtendedLeaf(7)

\* tsc.cpp:31: if (tsc_checked) return;
AlreadyChecked(c) == c

\* Everything of the engine and of the callers' frames but pc.
engine ==
    <<_lock, _timings, _total_counts, op, locals, reg, qlocals, ret, avg,
      ncalls, nclears, recorded, bumped, alocals, outs>>

\* tsc.cpp:120-122, 127-129, 134-136: one of the three functions is called.
TscCall(t) ==
    /\ \E f \in TscFunctions : Enter(t, f)
    /\ pc' = [pc EXCEPT ![t] = "tsc_enter"]
    /\ UNCHANGED <<_lock, _timings, _total_counts, reg, qlocals, ncalls,
                   nclears, recorded, alocals, outs>>
    /\ UNCHANGED <<tsc_checked, tsc_available, tsc_invariant,
                   tsc_frequency_hz, max_cpuid_function,
                   max_cpuidex_function, cpu, seen>>

\* tsc.cpp:28-36: the detection returns at once when it has run; else its
\* locals are zeroed.
TscCheck(t) ==
    /\ pc[t] = "tsc_enter"
    /\ IF AlreadyChecked(tsc_checked)
       THEN /\ pc' = [pc EXCEPT ![t] = "tsc_return"]
            /\ UNCHANGED <<max_cpuid_function, max_cpuidex_function>>
       ELSE /\ max_cpuid_function' = [max_cpuid_function EXCEPT ![t] = 0]
            /\ max_cpuidex_function' = [max_cpuidex_function EXCEPT ![t] = 0]
            /\ pc' = [pc EXCEPT ![t] = "tsc_leaf0"]
    /\ UNCHANGED <<tsc_checked, tsc_available, tsc_invariant,
                   tsc_frequency_hz, cpu, seen>>
    /\ UNCHANGED engine

\* tsc.cpp:39-40: the highest basic leaf.
TscBasicMax(t) ==
    /\ pc[t] = "tsc_leaf0"
    /\ \E v \in BasicMax :
          /\ Answers("leaf0", {<<x>> : x \in BasicMax}, <<v>>)
          /\ max_cpuid_function' =
                [max_cpuid_function EXCEPT ![t] = ToInt(v)]
    /\ pc' = [pc EXCEPT ![t] = "tsc_ext0"]
    /\ UNCHANGED <<tsc_checked, tsc_available, tsc_invariant,
                   tsc_frequency_hz, max_cpuidex_function, seen>>
    /\ UNCHANGED engine

\* tsc.cpp:41-42: the highest extended leaf.
TscExtendedMax(t) ==
    /\ pc[t] = "tsc_ext0"
    /\ \E v \in ExtendedMax :
          /\ Answers("ext0", {<<x>> : x \in ExtendedMax}, <<v>>)
          /\ max_cpuidex_function' =
                [max_cpuidex_function EXCEPT ![t] = ToInt(v)]
    /\ pc' = [pc EXCEPT ![t] = "tsc_available"]
    /\ UNCHANGED <<tsc_checked, tsc_available, tsc_invariant,
                   tsc_frequency_hz, max_cpuid_function, seen>>
    /\ UNCHANGED engine

\* tsc.cpp:45-71: bit 27 of EDX of leaf 0x80000001.
TscAvailable(t) ==
    /\ pc[t] = "tsc_available"
    /\ IF ToUnsigned(max_cpuidex_function[t]) >= ExtendedLeaf(1)
       THEN \E b \in Bits :
               /\ Answers("ext1", {<<x>> : x \in Bits}, <<b>>)
               /\ tsc_available' = (b # 0)
       ELSE UNCHANGED <<cpu, tsc_available>>
    /\ pc' = [pc EXCEPT ![t] = "tsc_invariant"]
    /\ UNCHANGED <<tsc_checked, tsc_invariant, tsc_frequency_hz,
                   max_cpuid_function, max_cpuidex_function, seen>>
    /\ UNCHANGED engine

\* tsc.cpp:73-76: bit 8 of EDX of leaf 0x80000007.
TscInvariant(t) ==
    /\ pc[t] = "tsc_invariant"
    /\ IF InvariantAsked(tsc_available, max_cpuidex_function[t])
       THEN \E b \in Bits :
               /\ Answers("ext7", {<<x>> : x \in Bits}, <<b>>)
               /\ tsc_invariant' = (b # 0)
       ELSE UNCHANGED <<cpu, tsc_invariant>>
    /\ pc' = [pc EXCEPT ![t] = "tsc_frequency"]
    /\ UNCHANGED <<tsc_checked, tsc_available, tsc_frequency_hz,
                   max_cpuid_function, max_cpuidex_function, seen>>
    /\ UNCHANGED engine

\* tsc.cpp:78: if (tsc_available)
TscFrequency(t) ==
    /\ pc[t] = "tsc_frequency"
    /\ pc' = [pc EXCEPT ![t] =
                 IF tsc_available THEN "tsc_crystal" ELSE "tsc_done"]
    /\ UNCHANGED tscvars
    /\ UNCHANGED engine

\* tsc.cpp:80: (tsc_frequency_hz == 0) && (max_cpuid_function >= 0x15)
TscCrystal(t) ==
    /\ pc[t] = "tsc_crystal"
    /\ pc' = [pc EXCEPT ![t] =
                 IF tsc_frequency_hz = 0
                    /\ max_cpuid_function[t] >= LeafCrystal
                 THEN "tsc_crystal_read" ELSE "tsc_base"]
    /\ UNCHANGED tscvars
    /\ UNCHANGED engine

\* tsc.cpp:81-85: leaf 0x15, and the frequency from its three registers.
TscCrystalRead(t) ==
    /\ pc[t] = "tsc_crystal_read"
    /\ \E r \in CrystalRegisters :
          /\ cpu["leaf15"] \in {Unread, r}
          /\ IF ToInt(r[1]) # 0 /\ ToInt(r[2]) # 0 /\ ToInt(r[3]) # 0
             THEN \E f \in CrystalFrequency(ToInt(r[1]), ToInt(r[2]),
                                            ToInt(r[3])) :
                     /\ cpu["build"] \in {Unread, <<f>>}
                     /\ cpu' = [cpu EXCEPT !["leaf15"] = r,
                                           !["build"] = <<f>>]
                     /\ IF f = Trap
                        THEN /\ pc' = [u \in Threads |-> "terminated"]
                             /\ UNCHANGED tsc_frequency_hz
                        ELSE /\ tsc_frequency_hz' = f
                             /\ pc' = [pc EXCEPT ![t] = "tsc_base"]
             ELSE /\ cpu' = [cpu EXCEPT !["leaf15"] = r]
                  /\ pc' = [pc EXCEPT ![t] = "tsc_base"]
                  /\ UNCHANGED tsc_frequency_hz
    /\ UNCHANGED <<tsc_checked, tsc_available, tsc_invariant,
                   max_cpuid_function, max_cpuidex_function, seen>>
    /\ UNCHANGED engine

\* tsc.cpp:88-89: (tsc_frequency_hz == 0) && (max_cpuid_function >= 0x16)
TscBase(t) ==
    /\ pc[t] = "tsc_base"
    /\ pc' = [pc EXCEPT ![t] =
                 IF tsc_frequency_hz = 0 /\ max_cpuid_function[t] >= LeafBase
                 THEN "tsc_base_read" ELSE "tsc_platform"]
    /\ UNCHANGED tscvars
    /\ UNCHANGED engine

\* tsc.cpp:90-93: leaf 0x16, the base frequency in MHz.
TscBaseRead(t) ==
    /\ pc[t] = "tsc_base_read"
    /\ \E a \in BaseRegisters :
          /\ Answers("leaf16", {<<x>> : x \in BaseRegisters}, <<a>>)
          /\ IF LowHalf(ToInt(a)) # 0
             THEN tsc_frequency_hz' = (LowHalf(ToInt(a)) * MHzToHz) % Modulus
             ELSE UNCHANGED tsc_frequency_hz
    /\ pc' = [pc EXCEPT ![t] = "tsc_platform"]
    /\ UNCHANGED <<tsc_checked, tsc_available, tsc_invariant,
                   max_cpuid_function, max_cpuidex_function, seen>>
    /\ UNCHANGED engine

\* tsc.cpp:96-97: in a build for _WIN32,
\* (tsc_frequency_hz == 0) && tsc_invariant
TscPlatform(t) ==
    /\ pc[t] = "tsc_platform"
    /\ \E w \in Bits :
          /\ Answers("platform", {<<x>> : x \in Bits}, <<w>>)
          /\ pc' = [pc EXCEPT ![t] =
                       IF w = 1 /\ tsc_frequency_hz = 0 /\ tsc_invariant
                       THEN "tsc_registry" ELSE "tsc_done"]
    /\ UNCHANGED <<tsc_checked, tsc_available, tsc_invariant,
                   tsc_frequency_hz, max_cpuid_function,
                   max_cpuidex_function, seen>>
    /\ UNCHANGED engine

\* tsc.cpp:98-113: the registry value ~Mhz of the current processor.
TscRegistry(t) ==
    /\ pc[t] = "tsc_registry"
    /\ \E r \in RegistryValues :
          /\ Answers("registry", RegistryValues, r)
          /\ IF r[1] = 1
             THEN tsc_frequency_hz' = (r[2] * MHzToHz) % Modulus
             ELSE UNCHANGED tsc_frequency_hz
    /\ pc' = [pc EXCEPT ![t] = "tsc_done"]
    /\ UNCHANGED <<tsc_checked, tsc_available, tsc_invariant,
                   max_cpuid_function, max_cpuidex_function, seen>>
    /\ UNCHANGED engine

\* tsc.cpp:117-118: tsc_checked = true; the locals go out of scope.
TscDone(t) ==
    /\ pc[t] = "tsc_done"
    /\ tsc_checked' = TRUE
    /\ max_cpuid_function' = [max_cpuid_function EXCEPT ![t] = Nil]
    /\ max_cpuidex_function' = [max_cpuidex_function EXCEPT ![t] = Nil]
    /\ pc' = [pc EXCEPT ![t] = "tsc_return"]
    /\ UNCHANGED <<tsc_available, tsc_invariant, tsc_frequency_hz, cpu,
                   seen>>
    /\ UNCHANGED engine

\* tsc.cpp:124, 131, 138: the static that the function returns.
Static(f) ==
    IF f = "is_available" THEN tsc_available
    ELSE IF f = "is_invariant" THEN tsc_invariant
    ELSE tsc_frequency_hz

\* tsc.cpp:124-125, 131-132, 138-139: the function returns its static,
\* and the thread is in no method.
TscReturn(t) ==
    /\ pc[t] = "tsc_return"
    /\ seen' = [seen EXCEPT ![op[t]] = @ \cup {Static(op[t])}]
    /\ op' = [op EXCEPT ![t] = "none"]
    /\ pc' = [pc EXCEPT ![t] = "idle"]
    /\ UNCHANGED <<tsc_checked, tsc_available, tsc_invariant,
                   tsc_frequency_hz, max_cpuid_function,
                   max_cpuidex_function, cpu>>
    /\ UNCHANGED <<_lock, _timings, _total_counts, locals, reg, qlocals, ret,
                   avg, ncalls, nclears, recorded, bumped, alocals, outs>>

\* The threads call the three functions of the TSC clock.
NextTsc ==
    \E t \in Threads :
        \/ TscCall(t)
        \/ TscCheck(t)
        \/ TscBasicMax(t)
        \/ TscExtendedMax(t)
        \/ TscAvailable(t)
        \/ TscInvariant(t)
        \/ TscFrequency(t)
        \/ TscCrystal(t)
        \/ TscCrystalRead(t)
        \/ TscBase(t)
        \/ TscBaseRead(t)
        \/ TscPlatform(t)
        \/ TscRegistry(t)
        \/ TscDone(t)
        \/ TscReturn(t)

SpecTsc == Init /\ [][NextTsc]_vars

\* ------------------------------------------------------------- properties

AllIdle == \A t \in Threads : pc[t] = "idle"

\* Thread t has returned from a call of the method name.
Returned(t, name) == pc[t] = "idle" /\ op[t] = name

\* The step in which thread t returns from a call of the method name.
Returns(t, name) == op[t] = name /\ pc[t] # "idle" /\ pc'[t] = "idle"

EngineEmpty == _total_counts = 0 /\ _timings = EmptyMap

RECURSIVE SumTimes(_)
\* The sum of key * count over the buckets of m, as a mathematical integer.
SumTimes(m) ==
    IF DOMAIN m = {} THEN 0
    ELSE LET k == CHOOSE x \in DOMAIN m : TRUE
         IN  k * m[k] + SumTimes([x \in DOMAIN m \ {k} |-> m[x]])

\* The number of events of m with a duration of at most d.
CountUpTo(m, d) == SumCounts([k \in {x \in DOMAIN m : x <= d} |-> m[k]])

\* The smallest key of m at which the share of events of at most that
\* duration reaches p - threshold.
SmallestKeyReaching(m, p) ==
    SetMin({d \in DOMAIN m :
              FracGeq(CountUpTo(m, d), SumCounts(m), p - 1, ThresholdDen)})

\* C1: whenever no thread is inside a critical section, _total_counts is
\* the sum of the counts of all buckets of _timings.
C1_TotalIsSumOfBuckets ==
    _lock = NoThread => _total_counts = SumCounts(_timings)

\* C1 witness: after a clear and three tracks into two buckets, nobody
\* holding the mutex.
C1_Witness ==
    /\ _lock = NoThread
    /\ AllIdle
    /\ nclears = 1
    /\ _total_counts = 3
    /\ Cardinality(DOMAIN _timings) = 2

\* C2: when every thread has made its MaxCalls calls of track and all have
\* returned, clear never having been called, total_events() is the number of
\* threads times MaxCalls and every bucket counts the calls that returned its
\* duration.
C2_NoLostUpdate ==
    ((\A t \in Threads : pc[t] = "idle" /\ ncalls[t] = MaxCalls) /\ nclears = 0)
    => /\ _total_counts = Cardinality(Threads) * MaxCalls
       /\ DOMAIN _timings = BagToSet(recorded)
       /\ \A d \in DOMAIN _timings : _timings[d] = CopiesIn(d, recorded)

\* C2 witness: all calls made and returned, with one duration recorded by
\* both threads.
C2_Witness ==
    /\ \A t \in Threads : Returned(t, "track") /\ ncalls[t] = MaxCalls
    /\ nclears = 0
    /\ \A t \in Threads : ret[t] = MAX_U64 - 4
    /\ _total_counts = Cardinality(Threads) * MaxCalls
    /\ Cardinality(DOMAIN _timings) >= 2

\* C3: between calls, the histogram holds one bucket for each duration
\* recorded since creation or the last clear, counting how often it was
\* recorded, and no other bucket; a duration recorded N times alone gives
\* one bucket of count N and total_events() = N.
C3_BucketPerDuration ==
    _lock = NoThread =>
        /\ \A d \in DOMAIN _timings \cup BagToSet(recorded) :
              /\ d \in DOMAIN _timings
              /\ _timings[d] = CopiesIn(d, recorded)
              /\ _timings[d] >= 1
        /\ \A d \in BagToSet(recorded) :
              BagToSet(recorded) = {d} =>
                 /\ DOMAIN _timings = {d}
                 /\ _total_counts = CopiesIn(d, recorded)

\* C3 witness: four calls of track and a clear; the clear wiped the first
\* event, and the same duration was recorded three times since.
C3_Witness ==
    /\ _lock = NoThread
    /\ AllIdle
    /\ nclears = 1
    /\ \A t \in Threads : ncalls[t] = 2
    /\ \E d \in DOMAIN _timings : DOMAIN _timings = {d} /\ _timings[d] = 3

\* C4: the duration track(end, start) returns is (end - start) mod 2^Width.
C4_ReturnsModularDifference ==
    \A t \in Threads :
        (Returned(t, "track") /\ ret[t] # Nil) =>
            ret[t] = (time_end[t] - time_start[t] + Modulus) % Modulus

C6_ClearLeavesFresh ==
    [][\A t \in Threads :
          Returns(t, "clear") =>
             /\ _total_counts' = 0
             /\ _timings' = EmptyMap
             /\ _lock' = NoThread]_vars

\* C6 witness: a clear has returned after a track had recorded an event,
\* and the engine is empty.
C6_Witness ==
    /\ EngineEmpty
    /\ _lock = NoThread
    /\ \E t \in Threads : Returned(t, "clear")
    /\ \E t \in Threads : Returned(t, "track") /\ ret[t] # Nil

\* One thread has called track once, another clear once, nothing else was
\* called, and both have returned.
OneTrackOneClear(t, u) ==
    /\ t # u
    /\ Returned(t, "track") /\ ncalls[t] = 1
    /\ Returned(u, "clear") /\ ncalls[u] = 0
    /\ nclears = 1

\* C7: a clear and one track of duration d by different threads, in any
\* interleaving, end in one of the two serial outcomes: the empty engine,
\* or the single bucket d of count 1 with total 1.
C7_ClearTrackSerial ==
    \A t \in Threads, u \in Threads :
        OneTrackOneClear(t, u) =>
            \/ EngineEmpty
            \/ /\ _total_counts = 1
               /\ DOMAIN _timings = {ret[t]}
               /\ _timings[ret[t]] = 1

\* C7 witness: the outcome in which the clear came first.
C7_Witness ==
    \E t \in Threads, u \in Threads :
        /\ OneTrackOneClear(t, u)
        /\ _total_counts = 1
        /\ DOMAIN _timings = {ret[t]}

QueryOps == {"total_events", "total_time", "percentile_events",
             "percentile_time"}

\* C8: on an engine that is empty (fresh, or just cleared), total_events,
\* total_time, percentile_events(p) and percentile_time(p) return 0.
C8_EmptyEngineReturnsZero ==
    [][\A t \in Threads : \A q \in QueryOps :
          (Returns(t, q) /\ EngineEmpty) => ret'[t] = 0]_vars

\* C8 witness: percentile_events has returned 0 on the engine a clear has
\* emptied after a track.
C8_Witness ==
    /\ EngineEmpty
    /\ _lock = NoThread
    /\ \E t \in Threads, u \in Threads :
          /\ Returned(t, "percentile_events") /\ ret[t] = 0 /\ ncalls[t] = 0
          /\ Returned(u, "clear") /\ ncalls[u] = 1

\* The sum of the durations recorded since the last clear.
SumRecorded ==
    SumTimes([d \in BagToSet(recorded) |-> CopiesIn(d, recorded)])

\* C9 as stated: total_time() returns the sum of the recorded durations,
\* the sum of key * count over all buckets.
C9_TotalTimeIsSum ==
    [][\A t \in Threads :
          Returns(t, "total_time") =>
             /\ ret'[t] = SumRecorded
             /\ ret'[t] = SumTimes(_timings)]_vars

\* C9 amended: total_time() returns that sum reduced modulo 2^Width (the
\* sum itself while it is below 2^Width, and 0 on the empty engine).
C9_TotalTimeIsSumModulo ==
    [][\A t \in Threads :
          Returns(t, "total_time") =>
             /\ ret'[t] = SumRecorded % Modulus
             /\ ret'[t] = SumTimes(_timings) % Modulus
             /\ SumRecorded < Modulus => ret'[t] = SumRecorded
             /\ EngineEmpty => ret'[t] = 0]_vars

\* C9 witness: total_time has returned the wrapped sum of two buckets.
C9_Witness ==
    /\ _lock = NoThread
    /\ Cardinality(DOMAIN _timings) = 2
    /\ SumTimes(_timings) >= Modulus
    /\ \E t \in Threads :
          /\ Returned(t, "total_time")
          /\ ret[t] = SumTimes(_timings) % Modulus

\* The histogram of the durations 10, 10, 20, 30.
Example == [k \in {10, 20, 30} |-> IF k = 10 THEN 2 ELSE 1]

\* C10 as stated: on a non-empty engine, for every p in [0,1],
\* percentile_events(p) returns the smallest key at which the share of
\* events of at most that duration reaches p - threshold.
C10_PercentileEventsSmallestKey ==
    [][\A t \in Threads :
          (Returns(t, "percentile_events") /\ _total_counts # 0) =>
             ret'[t] = SmallestKeyReaching(_timings, percentile[t])]_vars

\* C10 amended: that holds for p - threshold > threshold and p + threshold
\* < 1 - threshold; for smaller p the minimum key is returned and for
\* larger p the maximum key, whatever the shares are.  For 10, 10, 20, 30
\* and p = 0.5 the result is 10.
C10_PercentileEventsScan ==
    [][\A t \in Threads :
          (Returns(t, "percentile_events") /\ _total_counts # 0) =>
             LET p == percentile[t]
             IN  /\ (2 < p /\ p < ThresholdDen - 2) =>
                       ret'[t] = SmallestKeyReaching(_timings, p)
                 /\ p <= 2 => ret'[t] = SetMin(DOMAIN _timings)
                 /\ p >= ThresholdDen - 2 => ret'[t] = SetMax(DOMAIN _timings)
                 /\ (_timings = Example /\ p = ThresholdDen \div 2) =>
                       ret'[t] = 10]_vars

\* C10 witness: on 10, 10, 20, 30 a scan has returned the middle key 20,
\* as it does for p = 0.75.
C10_Witness ==
    /\ _timings = Example
    /\ _total_counts = 4
    /\ \E t \in Threads : Returned(t, "percentile_events") /\ ret[t] = 20

\* C11: on a non-empty engine percentile_events(p) returns the minimum key
\* for every p <= threshold, 0.0 included, and the maximum key for every
\* p >= 1 - threshold, 1.0 included, whatever the counts of the buckets.
C11_PercentileEventsEnds ==
    [][\A t \in Threads :
          (Returns(t, "percentile_events") /\ _total_counts # 0) =>
             /\ percentile[t] <= 1 => ret'[t] = SetMin(DOMAIN _timings)
             /\ percentile[t] >= ThresholdDen - 1 =>
                   ret'[t] = SetMax(DOMAIN _timings)]_vars

\* C11 witness: with nearly all events in the last of three buckets,
\* percentile_events has returned the minimum key, as it does for p = 0.
C11_Witness ==
    /\ DOMAIN _timings = {10, 20, 30}
    /\ _timings[10] = 1 /\ _timings[20] = 1 /\ _timings[30] = Big
    /\ \E t \in Threads : Returned(t, "percentile_events") /\ ret[t] = 10

\* C12: on one engine state, 0 <= p1 <= p2 <= 1 gives percentile_events(p1)
\* <= percentile_events(p2), also when the two calls end in different ones
\* of the early return for the minimum, the scan and the early return for
\* the maximum.
C12_PercentileEventsMonotone ==
    \A t \in Threads, u \in Threads :
        (/\ Returned(t, "percentile_events")
         /\ Returned(u, "percentile_events")
         /\ percentile[t] <= percentile[u]) => ret[t] <= ret[u]

\* C12 witness: on 10, 10, 20, 30 one call has returned 20 from the scan
\* and a call with a larger argument has returned 30 from the early return.
C12_Witness ==
    /\ _timings = Example
    /\ \E t \in Threads, u \in Threads :
          /\ Returned(t, "percentile_events")
          /\ Returned(u, "percentile_events")
          /\ percentile[t] = 3 * (ThresholdDen \div 4) /\ ret[t] = 20
          /\ percentile[u] = ThresholdDen - 2 /\ ret[u] = 30

\* The first of the keys ks, in ascending order, whose position between the
\* smallest and the largest key reaches p - threshold.
FirstKeyAtPosition(ks, p) ==
    SetMin({k \in ks : FracGeq(k - SetMin(ks), SetMax(ks) - SetMin(ks),
                               p - 1, ThresholdDen)})

\* C13 as stated: on a non-empty engine, for every p in [0,1],
\* percentile_time(p, ..) returns the first key k in ascending order with
\* (k - min) / (max - min) >= p - threshold, a function of the set of keys
\* alone (here for two keys or more, where the quotient is defined).
C13_PercentileTimeFirstKey ==
    [][\A t \in Threads :
          (/\ Returns(t, "percentile_time")
           /\ _total_counts # 0
           /\ Cardinality(DOMAIN _timings) >= 2) =>
             ret'[t] = FirstKeyAtPosition(DOMAIN _timings, percentile[t])]_vars

\* C13 amended: that holds for p - threshold > threshold and p + threshold
\* < 1 - threshold on two keys or more; for smaller p the minimum key is
\* returned and for larger p the maximum key, and a single key is returned
\* for every p.  The result is a function of the set of keys and p alone.
C13_PercentileTimeScan ==
    [][\A t \in Threads :
          (Returns(t, "percentile_time") /\ _total_counts # 0) =>
             LET p == percentile[t]
                 ks == DOMAIN _timings
             IN  /\ (2 < p /\ p < ThresholdDen - 2 /\ Cardinality(ks) >= 2) =>
                       ret'[t] = FirstKeyAtPosition(ks, p)
                 /\ p <= 2 => ret'[t] = SetMin(ks)
                 /\ p >= ThresholdDen - 2 => ret'[t] = SetMax(ks)
                 /\ Cardinality(ks) = 1 => ret'[t] \in ks]_vars

\* C13 witness: with nearly all events in the first of the buckets 10, 20
\* and 30, percentile_time has returned the middle key 20, as it does for
\* p = 0.25 and p = 0.5.
C13_Witness ==
    /\ DOMAIN _timings = {10, 20, 30}
    /\ _timings[10] = Big /\ _timings[20] = 1 /\ _timings[30] = 1
    /\ \E t \in Threads :
          /\ Returned(t, "percentile_time")
          /\ percentile[t] = ThresholdDen \div 4
          /\ ret[t] = 20

\* C14: on a non-empty engine, when percentile_time(p, time, amount) returns
\* the key k, the object bound to time holds k and the object bound to
\* amount holds the count of bucket k.
C14_OutputParameters ==
    [][\A t \in Threads :
          (Returns(t, "percentile_time") /\ _total_counts # 0) =>
             /\ time_out'[t] = ret'[t]
             /\ amount_out'[t] = _timings[ret'[t]]]_vars

\* The positions of a thread between its first and its last access to the
\* histogram: those after the mutex was taken in track, stop, clear,
\* total_time, percentile_events and percentile_time, up to the return that
\* releases it.
Section ==
    {"track_insert", "track_load", "track_store", "track_return",
     "stop_insert", "stop_load", "stop_store", "stop_return",
     "clear_total", "clear_map", "clear_return",
     "tt_loop", "tt_return", "pe_check", "pe_total", "pe_loop", "pt_check",
     "pt_loop"}

\* C15: at every moment at most one thread is inside a section that reads
\* or writes the histogram, and that thread holds the engine's mutex: track,
\* clear, total_time, percentile_time and percentile_events take it before
\* their first access to _timings and hold it until their last.
C15_MutualExclusion ==
    /\ \A t \in Threads, u \in Threads :
          (pc[t] \in Section /\ pc[u] \in Section) => t = u
    /\ \A t \in Threads : pc[t] \in Section <=> _lock = t

\* C15 witness: one thread is inside the scan of total_time, at a bucket of
\* three events, while another thread, which wants to record with stop,
\* waits for the mutex.
C15_Witness ==
    \E t \in Threads, u \in Threads :
        /\ pc[t] = "tt_loop"
        /\ itr[t] \in DOMAIN _timings
        /\ _timings[itr[t]] = 3
        /\ _lock = t
        /\ pc[u] = "stop_lock"

\* The value percentile_events(p) has on the histogram m when nothing runs
\* beside it.
PercentileEventsOn(m, p) ==
    IF DOMAIN m = {} THEN 0
    ELSE IF p <= 2 THEN SetMin(DOMAIN m)
    ELSE IF p >= ThresholdDen - 2 THEN SetMax(DOMAIN m)
    ELSE SmallestKeyReaching(m, p)

\* The value percentile_time(p, ..) has on the histogram m when nothing runs
\* beside it.
PercentileTimeOn(m, p) ==
    IF DOMAIN m = {} THEN 0
    ELSE IF p <= 2 THEN SetMin(DOMAIN m)
    ELSE IF p >= ThresholdDen - 2 \/ Cardinality(DOMAIN m) = 1
         THEN SetMax(DOMAIN m)
    ELSE FirstKeyAtPosition(DOMAIN m, p)

\* Every call of track and of clear is applied to the engine entirely or not
\* at all: the buckets are the durations returned since the last clear
\* returned, and the total is their number.
WholeCallsOnly ==
    /\ \A d \in DOMAIN _timings \cup BagToSet(recorded) :
          d \in DOMAIN _timings /\ _timings[d] = CopiesIn(d, recorded)
    /\ _total_counts = SumCounts(_timings)

\* C16: a call of total_time, percentile_events or percentile_time that
\* runs beside calls of track and clear returns the value it has on one
\* histogram state to which every track and clear is applied entirely or
\* not at all, the state the engine is in when the call returns; no torn
\* insert and no bucket without its total is observed.
C16_QueriesSeeWholeCalls ==
    [][\A t \in Threads :
          /\ Returns(t, "total_time") =>
                /\ WholeCallsOnly
                /\ ret'[t] = SumTimes(_timings) % Modulus
          /\ Returns(t, "percentile_events") =>
                /\ WholeCallsOnly
                /\ ret'[t] = PercentileEventsOn(_timings, percentile[t])
          /\ Returns(t, "percentile_time") =>
                /\ WholeCallsOnly
                /\ ret'[t] = PercentileTimeOn(_timings, percentile[t])]_vars

\* C16 witness: percentile_events has returned the smaller of two buckets
\* while another thread's second call of track waits to be applied.
C16_Witness ==
    \E t \in Threads, u \in Threads :
        /\ Returned(t, "percentile_events")
        /\ Cardinality(DOMAIN _timings) = 2
        /\ percentile[t] = ThresholdDen \div 2
        /\ ret[t] = SetMin(DOMAIN _timings)
        /\ pc[u] = "track_lock"
        /\ ncalls[u] = 2

\* C17: under fair scheduling, in every interleaving of calls of track,
\* stop, clear, total_events, total_time, average_time, percentile_time and
\* percentile_events by the threads of one engine, every call returns in
\* the end: no thread waits for the mutex forever.
C17_EveryCallReturns ==
    \A t \in Threads : (pc[t] # "idle") ~> (pc[t] = "idle")

\* C17 witness: one thread waits for the mutex in percentile_events while
\* another holds it inside the total_time() of its average_time, the engine
\* not being empty.
C17_Witness ==
    \E t \in Threads, u \in Threads :
        /\ pc[t] = "pe_lock"
        /\ op[u] = "average_time"
        /\ pc[u] = "tt_loop"
        /\ _lock = u
        /\ _total_counts > 0

\* C18: average_time() on an empty engine is not guarded: it divides the 0
\* of total_time() by the 0 of total_events() and returns the not-a-number,
\* neither 0 nor an error; no step of average_time changes the engine.
C18_AverageOfNothingIsNaN ==
    [][\A t \in Threads :
          /\ (op[t] = "average_time" /\ pc[t] # "idle") =>
                /\ _timings' = _timings
                /\ _total_counts' = _total_counts
          /\ (Returns(t, "average_time") /\ EngineEmpty) =>
                /\ avg_time[t] = 0
                /\ avg_events[t] = 0
                /\ avg'[t] = NotANumber
                /\ ret'[t] = Nil]_vars

\* C18 witness: after two recorded events and a clear, average_time has
\* returned the not-a-number.
C18_Witness ==
    \E t \in Threads :
        /\ Returned(t, "average_time")
        /\ avg[t] = NotANumber
        /\ EngineEmpty
        /\ ncalls[t] = 2
        /\ nclears = 1

\* C19: stop(b), reading the clock as n, returns the duration that
\* track(n, b) returns and changes the histogram and the total as
\* track(n, b) changes them from the same state: the bucket update is
\* track's update for track's difference, the total is incremented as
\* track increments it, and the value returned is track's difference.
C19_StopIsTrack ==
    [][\A t \in Threads :
          LET d == Difference(time_end[t], time_start[t])
          IN  /\ (pc[t] = "stop_insert" /\ pc'[t] = "stop_load") =>
                    _timings' = Insert(_timings, d)
              /\ (pc[t] = "stop_store" /\ pc'[t] = "stop_return") =>
                    _total_counts' = Incremented(_total_counts)
              /\ Returns(t, "stop") =>
                    /\ ret'[t] = d
                    /\ bumped[t] = d
                    /\ d \in DOMAIN _timings]_vars

\* C19 witness: a stop whose clock value lies before its begin timestamp
\* has returned, after another event of the same duration and one of a
\* different duration.
C19_Witness ==
    \E t \in Threads :
        /\ Returned(t, "stop")
        /\ time_end[t] < time_start[t]
        /\ ret[t] \in DOMAIN _timings
        /\ _timings[ret[t]] = 2
        /\ _total_counts = 3

\* Thread t takes a step inside a call of the method name.
StepsIn(t, name) == op[t] = name /\ pc[t] # "idle" /\ pc'[t] # pc[t]

\* C20: the engine accumulates, and clear is its only reset.  A call of
\* track or stop adds exactly 1 to the total, and the engine is not empty
\* when it returns; the total changes in no other way than by that 1 and by
\* clear's reset to 0; outside the steps of a clear no bucket loses events
\* and no bucket disappears; and the empty state (total 0, no buckets) is
\* entered again only by a step of clear.
C20_MonotoneAccumulator ==
    [][/\ \A t \in Threads :
             /\ (pc[t] \in {"track_store", "stop_store"} /\ pc'[t] # pc[t]) =>
                   _total_counts' = _total_counts + 1
             /\ (Returns(t, "track") \/ Returns(t, "stop")) =>
                   /\ _total_counts' >= 1
                   /\ _timings' # EmptyMap
       /\ _total_counts' # _total_counts =>
             \/ /\ _total_counts' = _total_counts + 1
                /\ \E t \in Threads : StepsIn(t, "track") \/ StepsIn(t, "stop")
             \/ /\ _total_counts' = 0
                /\ \E t \in Threads : StepsIn(t, "clear")
       /\ (~ \E t \in Threads : StepsIn(t, "clear")) =>
             \A k \in DOMAIN _timings :
                 k \in DOMAIN _timings' /\ _timings'[k] >= _timings[k]
       /\ (~ EngineEmpty /\ EngineEmpty') =>
             \E t \in Threads : StepsIn(t, "clear")]_vars

\* C20 witness: after a clear the engine accumulates again: two events of
\* one duration have been recorded since, the last call having returned.
C20_Witness ==
    /\ nclears = 1
    /\ _lock = NoThread
    /\ recorded # EmptyBag
    /\ _total_counts = 2
    /\ \E d \in DOMAIN _timings : _timings[d] = 2
    /\ \E t \in Threads : Returned(t, "track") /\ ncalls[t] = 2

\* Thread t is at the first statement of an operation of the engine that
\* another operation of the engine has called: total_events inside
\* percentile_events, or total_time or total_events inside average_time.
InCallee(t) ==
    \/ pc[t] = "pe_total"
    \/ op[t] = "average_time" /\ pc[t] \in {"tt_lock", "te_read"}

\* C21 as stated: no operation calls another operation of the engine while
\* it holds the mutex: a thread entering a called operation does not hold it.
C21_NoCallUnderLock ==
    \A t \in Threads : InCallee(t) => _lock # t

\* C21 amended: no operation calls an operation that takes the mutex while
\* it holds the mutex.  The one call made with the mutex held is that of
\* total_events() by percentile_events, and total_events takes no lock;
\* average_time calls total_time and total_events holding nothing.
C21_NoLockingCallUnderLock ==
    \A t \in Threads :
        (InCallee(t) /\ _lock = t) =>
            /\ op[t] = "percentile_events"
            /\ pc[t] = "pe_total"
            /\ ~ TotalEventsLocks

\* C21 witness: a thread is inside percentile_events' call of total_events
\* with the mutex held, and another thread waits for the mutex.
C21_Witness ==
    \E t \in Threads, u \in Threads :
        /\ pc[t] = "pe_total"
        /\ _lock = t
        /\ pc[u] = "clear_lock"

\* C22: with at least one event, the scan of percentile_events finds its
\* entry at the last bucket at the latest: max is the number of all events,
\* the running sum at the last bucket equals it, and the scan never stands
\* behind the last bucket, from where alone the return after the loop is
\* taken.
C22_ScanEndsInsideMap ==
    \A t \in Threads :
        pc[t] = "pe_loop" =>
            /\ itr[t] \in DOMAIN _timings
            /\ max[t] = SumCounts(_timings)
            /\ itr[t] = LastKey(_timings) =>
                  /\ accum[t] + _timings[itr[t]] = max[t]
                  /\ ReachedEvents(max[t], max[t], percentile[t])

\* C22 witness: a scan over three buckets stands at the last one, the first
\* two not having reached the percentile.
C22_Witness ==
    \E t \in Threads :
        /\ pc[t] = "pe_loop"
        /\ Cardinality(DOMAIN _timings) = 3
        /\ itr[t] = LastKey(_timings)
        /\ accum[t] = 2

\* C23: for end < start the sum (MAX_U64 - end) + start fits the unsigned
\* type: the duration track returns is the value of that expression over
\* the integers, nothing being lost to overflow.
C23_WrapSumFits ==
    \A t \in Threads :
        (Returned(t, "track") /\ ret[t] # Nil /\ time_end[t] < time_start[t]) =>
            /\ (MAX_U64 - time_end[t]) + time_start[t] <= MAX_U64
            /\ ret[t] = (MAX_U64 - time_end[t]) + time_start[t]

\* The histograms that whole calls of track with the timestamps of SpecAvg
\* can build: every engine state between calls is one of them.
WholeHistograms ==
    LET ds == {Difference(e, s) : e \in AvgStamps, s \in AvgStamps}
    IN  UNION {[ks -> 1..(Cardinality(Threads) * MaxCalls)] : ks \in SUBSET ds}

\* C24: average_time(), called beside track and clear, returns the quotient
\* of a total_time and a total_events that are those of one and the same
\* engine state.
C24_AverageOfOneState ==
    [][\A t \in Threads :
          Returns(t, "average_time") =>
             \E m \in WholeHistograms :
                 /\ avg_time[t] = SumTimes(m) % Modulus
                 /\ avg_events[t] = SumCounts(m)]_vars

\* C25 as stated: in every reachable state every bucket has a count of at
\* least 1, the number of buckets is the number of distinct durations
\* recorded since the last clear, and it never exceeds total_events.
C25_BucketsEverywhere ==
    /\ \A d \in DOMAIN _timings : _timings[d] >= 1
    /\ Cardinality(DOMAIN _timings) = Cardinality(BagToSet(recorded))
    /\ Cardinality(DOMAIN _timings) <= _total_counts

\* C25: in every reachable state every bucket has a count of at least 1;
\* whenever no thread is inside a critical section the number of buckets is
\* the number of distinct durations recorded since the last clear and does
\* not exceed total_events.
C25_BucketsBetweenCalls ==
    /\ \A d \in DOMAIN _timings : _timings[d] >= 1
    /\ _lock = NoThread =>
          /\ Cardinality(DOMAIN _timings) = Cardinality(BagToSet(recorded))
          /\ Cardinality(DOMAIN _timings) <= _total_counts

\* C25 witness: after a clear, three events in two buckets, nobody inside
\* a critical section.
C25_Witness ==
    /\ _lock = NoThread
    /\ nclears >= 1
    /\ Cardinality(DOMAIN _timings) = 2
    /\ _total_counts = 3
    /\ \E d \in DOMAIN _timings : _timings[d] = 2

\* C26: on a non-empty engine, for every p, p < 0 and p > 1 included, the
\* value returned by percentile_events(p) and by percentile_time(p, ..) is
\* a key present in the histogram, hence between the smallest and the
\* largest recorded duration.
C26_PercentileIsPresentKey ==
    [][\A t \in Threads :
          ((Returns(t, "percentile_events") \/ Returns(t, "percentile_time"))
             /\ _total_counts # 0) =>
             /\ ret'[t] \in DOMAIN _timings
             /\ SetMin(DOMAIN _timings) <= ret'[t]
             /\ ret'[t] <= SetMax(DOMAIN _timings)]_vars

\* C26 witness: on three buckets, percentile_events with p < 0 and
\* percentile_time with p > 1 have returned.
C26_Witness ==
    \E t \in Threads, u \in Threads :
        /\ Cardinality(DOMAIN _timings) = 3
        /\ Returned(t, "percentile_events")
        /\ percentile[t] < 0
        /\ ret[t] \in DOMAIN _timings
        /\ Returned(u, "percentile_time")
        /\ percentile[u] > ThresholdDen
        /\ ret[u] \in DOMAIN _timings

\* C27: when the histogram is one bucket k, percentile_time(p, ..) returns
\* k for every p in [0, 1]; the scan, standing on the entry, does not
\* return (the position 0/0 matches nothing), so that past the early
\* returns the value comes from the return after the loop.
C27_OneBucketPercentileTime ==
    [][\A t \in Threads :
          (op[t] = "percentile_time" /\ Cardinality(DOMAIN _timings) = 1) =>
             /\ Returns(t, "percentile_time") =>
                   ret'[t] = SetMin(DOMAIN _timings)
             /\ (pc[t] = "pt_loop" /\ itr[t] \in DOMAIN _timings) =>
                   /\ pc'[t] = "pt_loop"
                   /\ itr'[t] \in {itr[t], End}]_vars

\* C27 witness: on one bucket, percentile_time(0.5, ..), which takes
\* neither early return, has returned the key.
C27_Witness ==
    \E t \in Threads :
        /\ Cardinality(DOMAIN _timings) = 1
        /\ Returned(t, "percentile_time")
        /\ percentile[t] = ThresholdDen \div 2
        /\ ret[t] \in DOMAIN _timings

\* The positions of a thread inside the body of the probe, past the test
\* of tsc_checked and up to the statement that sets it.
ProbeBody ==
    {"tsc_leaf0", "tsc_ext0", "tsc_available", "tsc_invariant",
     "tsc_frequency", "tsc_crystal", "tsc_crystal_read", "tsc_base",
     "tsc_base_read", "tsc_platform", "tsc_registry", "tsc_done"}

\* One of the three functions has returned.
AnyReturned == \E f \in TscFunctions : seen[f] # {}

\* C28: the detection is cached after first use: once one of
\* is_available(), is_invariant() and frequency() has returned,
\* tsc_checked is true, no thread executes the body of the probe, and each
\* of the three functions has returned one value only.
C28_ProbedOnce ==
    AnyReturned =>
        /\ tsc_checked
        /\ \A t \in Threads : pc[t] \notin ProbeBody
        /\ \A f \in TscFunctions : Cardinality(seen[f]) <= 1

\* A source of the frequency has answered: leaf 0x15 with three non-zero
\* registers, leaf 0x16 with a non-zero low half, or the registry.
SourceAnswered ==
    \/ /\ cpu["leaf15"] # Unread
       /\ \A i \in 1..3 : cpu["leaf15"][i] # 0
    \/ /\ cpu["leaf16"] # Unread
       /\ LowHalf(ToInt(cpu["leaf16"][1])) # 0
    \/ /\ cpu["registry"] # Unread
       /\ cpu["registry"][1] = 1

\* C29: whatever the processor answers, once the detection has run
\* is_invariant() implies is_available() and frequency() # 0 implies
\* is_available(), in the statics and in the values returned; frequency()
\* is 0 when the TSC is unavailable and when no source of the frequency
\* has answered.
C29_FlagsAgree ==
    /\ tsc_checked =>
          /\ tsc_invariant => tsc_available
          /\ tsc_frequency_hz # 0 => tsc_available
          /\ ~tsc_available => tsc_frequency_hz = 0
          /\ ~SourceAnswered => tsc_frequency_hz = 0
    /\ TRUE \in seen["is_invariant"] => seen["is_available"] \subseteq {TRUE}
    /\ seen["frequency"] \ {0} # {} => seen["is_available"] \subseteq {TRUE}
    /\ (FALSE \in seen["is_available"] \/ ~SourceAnswered) =>
          seen["frequency"] \subseteq {0}

\* C29 witness: the detection has run on a processor with an invariant TSC
\* of known frequency, and the three functions have returned that.
C29_Witness ==
    /\ tsc_checked
    /\ seen["is_available"] = {TRUE}
    /\ seen["is_invariant"] = {TRUE}
    /\ \E f \in seen["frequency"] : f # 0

\* C30: when leaf 0x15 reports three non-zero registers, the statement
\* that computes the frequency from them gives the mathematical value of
\* (regs[2] * regs[0]) / regs[1], converted to uint64_t: the product fits
\* the signed 32-bit int it is computed in, whatever the registers hold.
C30_CrystalProductFits ==
    [][\A t \in Threads :
          (/\ pc[t] = "tsc_crystal_read"
           /\ pc'[t] # pc[t]
           /\ \A i \in 1..3 : cpu'["leaf15"][i] # 0) =>
             LET eax == ToInt(cpu'["leaf15"][1])
                 ebx == ToInt(cpu'["leaf15"][2])
                 ecx == ToInt(cpu'["leaf15"][3])
             IN  /\ IntMin <= ecx * eax
                 /\ ecx * eax <= IntMax
                 /\ pc'[t] = "tsc_base"
                 /\ tsc_frequency_hz' = ToU64(TruncDiv(ecx * eax, ebx))]_vars

====
